---- MODULE Spec2Model ----
(***************************************************************************)
(* A model of raydium-balance-fetcher: the BalanceFetcher operations of    *)
(* src/src/balance_fetcher.rs and the command-line program of              *)
(* src/src/main.rs.                                                        *)
(*                                                                         *)
(* Two specifications are given.  SpecApi applies each BalanceFetcher      *)
(* operation to inputs drawn from bounded sets (what the remote ledger     *)
(* holds and how the remote call ends).  Spec runs main statement by       *)
(* statement against a ledger that other parties change between the        *)
(* program's remote calls.                                                 *)
(*                                                                         *)
(* u64 values are kept at their full width, as four 16-bit limbs (least    *)
(* significant first), because the model checker's own integers are 32-bit.*)
(***************************************************************************)
EXTENDS Integers, Sequences, FiniteSets, TLC

(***************************************************************************)
(* Results: Rust's Result<T, E>, plus the outcome in which the call does   *)
(* not return at all because the thread panicked.                          *)
(***************************************************************************)
Ok(v) == [kind |-> "Ok", val |-> v]

Err(e) == [kind |-> "Err", err |-> e]

Panic(m) == [kind |-> "Panic", msg |-> m]

IsOk(r) == r.kind = "Ok"

IsErr(r) == r.kind = "Err"

IsPanic(r) == r.kind = "Panic"

(***************************************************************************)
(* u64                                                                     *)
(***************************************************************************)
LimbBase == 65536

Limbs == 4

U64Zero == [i \in 1..Limbs |-> 0]

U64One == [i \in 1..Limbs |-> IF i = 1 THEN 1 ELSE 0]

\* carry into limb i when x*m + c is computed limb by limb (c enters at limb 1)
RECURSIVE CarryInto(_, _, _, _)
CarryInto(x, m, c, i) ==
    IF i = 1 THEN c
    ELSE (x[i - 1] * m + CarryInto(x, m, c, i - 1)) \div LimbBase

\* x*m + c for a u64 x and small m, c: the low 64 bits and what overflowed
MulAddSmall(x, m, c) ==
    [val |-> [i \in 1..Limbs |-> (x[i] * m + CarryInto(x, m, c, i)) % LimbBase],
     carry |-> CarryInto(x, m, c, Limbs + 1)]

\* carry into limb i of x + y
RECURSIVE AddCarryInto(_, _, _)
AddCarryInto(x, y, i) ==
    IF i = 1 THEN 0
    ELSE (x[i - 1] + y[i - 1] + AddCarryInto(x, y, i - 1)) \div LimbBase

\* x + y for two u64: the wrapped sum (mod 2^64) and the carry out of bit 63
AddU64(x, y) ==
    [val |-> [i \in 1..Limbs |-> (x[i] + y[i] + AddCarryInto(x, y, i)) % LimbBase],
     carry |-> AddCarryInto(x, y, Limbs + 1)]

\* The integer sum of a sequence of u64 values, as carries * 2^64 + val.
RECURSIVE IntegerSum(_)
IntegerSum(s) ==
    IF s = <<>> THEN [carries |-> 0, val |-> U64Zero]
    ELSE LET rest == IntegerSum(Tail(s))
             a == AddU64(Head(s), rest.val)
         IN  [carries |-> rest.carries + a.carry, val |-> a.val]

\* the integer n, which fits u64, as an integer sum
Exactly(n) == [carries |-> 0, val |-> n]

\* x <= y for two u64
RECURSIVE LeqFrom(_, _, _)
LeqFrom(x, y, i) ==
    IF i = 0 THEN TRUE
    ELSE IF x[i] # y[i] THEN x[i] < y[i]
    ELSE LeqFrom(x, y, i - 1)

LeqU64(x, y) == LeqFrom(x, y, Limbs)

(***************************************************************************)
(* u64::from_str on a string given as its sequence of characters: an       *)
(* optional leading "+", then one or more decimal digits, every step       *)
(* checked for overflow.                                                   *)
(***************************************************************************)
DigitValue(c) ==
    CASE c = "0" -> 0 [] c = "1" -> 1 [] c = "2" -> 2 [] c = "3" -> 3
      [] c = "4" -> 4 [] c = "5" -> 5 [] c = "6" -> 6 [] c = "7" -> 7
      [] c = "8" -> 8 [] c = "9" -> 9 [] OTHER -> -1

RECURSIVE ParseDigits(_, _)
ParseDigits(acc, s) ==
    IF s = <<>> THEN Ok(acc)
    ELSE IF DigitValue(Head(s)) < 0 THEN Err("InvalidDigit")
    ELSE LET next == MulAddSmall(acc, 10, DigitValue(Head(s)))
         IN  IF next.carry > 0 THEN Err("PosOverflow")
             ELSE ParseDigits(next.val, Tail(s))

u64_from_str(s) ==
    IF s = <<>> THEN Err("Empty")
    ELSE IF Len(s) = 1 /\ Head(s) \in {"+", "-"} THEN Err("InvalidDigit")
    ELSE IF Head(s) = "+" THEN ParseDigits(U64Zero, Tail(s))
    ELSE ParseDigits(U64Zero, s)

\* the u64 a decimal literal denotes
U64(s) == u64_from_str(s).val

\* carry (remainder) into limb i when x is divided by d from the top limb down
RECURSIVE RemInto(_, _, _)
RemInto(x, d, i) ==
    IF i = Limbs THEN 0
    ELSE (RemInto(x, d, i + 1) * LimbBase + x[i + 1]) % d

\* x \div d and x % d for a u64 x and a small d
DivSmall(x, d) ==
    [quot |-> [i \in 1..Limbs |-> (RemInto(x, d, i) * LimbBase + x[i]) \div d],
     rem |-> (RemInto(x, d, 1) * LimbBase + x[1]) % d]

DigitChar(d) == <<"0", "1", "2", "3", "4", "5", "6", "7", "8", "9">>[d + 1]

RECURSIVE DecimalDigits(_)
DecimalDigits(x) ==
    IF x = U64Zero THEN <<>>
    ELSE LET qr == DivSmall(x, 10)
         IN  Append(DecimalDigits(qr.quot), DigitChar(qr.rem))

\* u64::to_string: how the remote node writes a raw token amount
u64_to_string(x) == IF x = U64Zero THEN <<"0">> ELSE DecimalDigits(x)

(***************************************************************************)
(* Addresses.  A Pubkey is written as its base58 string; Pubkey::from_str  *)
(* accepts exactly the strings that are the base58 form of 32 bytes.       *)
(***************************************************************************)
WSOL_MINT_ADDRESS == "So11111111111111111111111111111111111111112"

RAYDIUM_V3_PROGRAM == "CAMMCzo5YL8w4VFF8KVHrK22GGUsp5VTaW7grrKgrWqK"

SOL_USDC_1BP_POOL == "8sLbNZoA1cfnvMJLPfp98ZLAnFSYCFApfJKMbiXNLwxj"

TOKEN_2022_PROGRAM == "TokenzQdBNbLqP5VEhdkAS6EPFLC1PHnBqCXEpPxuEb"

\* the wallets, mints, token accounts and pools of the modelled ledger
WALLET == "53zSj4G935ZY2a5x2UnGAiJXSuXXmGHaLph2zhAUvYpg"

USDC_MINT == "EPjFWdd5AufqSSqeM2qN1xzybapC8G4wEGGkZwyTDt1v"

NFT_MINT_1 == "NftMint1111111111111111111111111111111111111"

NFT_MINT_2 == "NftMint2222222222222222222222222222222222222"

TOKEN_ACCOUNT_1 == "TokenAcct1111111111111111111111111111111111"

TOKEN_ACCOUNT_2 == "TokenAcct2222222222222222222222222222222222"

TOKEN_ACCOUNT_3 == "TokenAcct3333333333333333333333333333333333"

OTHER_POOL == "2QdhepnKRTLjjSqPL1PtKNwqrUkoLee5Gqs8bvZhRdMv"

Base58Keys ==
    {WSOL_MINT_ADDRESS, RAYDIUM_V3_PROGRAM, SOL_USDC_1BP_POOL, TOKEN_2022_PROGRAM,
     WALLET, USDC_MINT, NFT_MINT_1, NFT_MINT_2, TOKEN_ACCOUNT_1, TOKEN_ACCOUNT_2,
     TOKEN_ACCOUNT_3, OTHER_POOL}

Pubkey_from_str(s) == IF s \in Base58Keys THEN Ok(s) ELSE Err("ParsePubkeyError")

\* the associated token account of (wallet, mint): a program-derived address
get_associated_token_address(wallet, mint) ==
    [derived_by |-> "associated-token-account", of |-> wallet, mint |-> mint]

(***************************************************************************)
(* The remote ledger service.  A ledger is what the node holds; a fault is *)
(* how one remote call ends when it does not simply serve the ledger.      *)
(***************************************************************************)
NoAccount == [exists |-> FALSE]

ClientError(kind, rpc, message) == [kind |-> kind, rpc |-> rpc, message |-> message]

AccountNotFound ==
    ClientError("RpcError", "RpcResponseError", "Invalid param: could not find account")

RpcFailure(fault) ==
    CASE fault = "Reqwest" -> ClientError("Reqwest", "none", "connection refused")
      [] fault = "NodeUnhealthy" ->
            ClientError("RpcError", "RpcResponseError", "Node is unhealthy")
      [] fault = "SerdeJson" -> ClientError("SerdeJson", "none", "invalid type")

\* how a remote call can fail whatever the ledger holds
TransportFaults == {"Reqwest", "NodeUnhealthy", "SerdeJson"}

rpc_get_balance(ledger, wallet, fault) ==
    IF fault \in TransportFaults THEN Err(RpcFailure(fault))
    ELSE Ok(ledger.lamports[wallet])

\* the response's amount is "a string representation of u64"; the fault
\* "MalformedAmount" is a node that serves something else in that field
rpc_get_token_account_balance(ledger, addr, fault) ==
    IF fault \in TransportFaults THEN Err(RpcFailure(fault))
    ELSE IF ledger.token_accounts[addr] = NoAccount THEN Err(AccountNotFound)
    ELSE LET acct == ledger.token_accounts[addr]
         IN  Ok([amount |-> IF fault = "MalformedAmount" THEN <<"1", ".", "5">>
                             ELSE u64_to_string(acct.amount),
                 decimals |-> acct.decimals])

(***************************************************************************)
(* Balance lookups.  Each operation takes the ledger and the faults of the *)
(* remote calls it makes, in the order it makes them.                      *)
(***************************************************************************)
SPLToken(amount, decimals) == [amount |-> amount, decimals |-> decimals]

balance_sol(wallet_address, ledger, faults) ==
    rpc_get_balance(ledger, wallet_address, faults[1])

IsRpcResponseError(err) == err.kind = "RpcError" /\ err.rpc = "RpcResponseError"

\* balance_spl_token without the not-found case: every error is returned
balance_spl_token_no_suppression(wallet_address, token_mint_address, ledger, faults) ==
    LET addr == get_associated_token_address(wallet_address, token_mint_address)
        rsp == rpc_get_token_account_balance(ledger, addr, faults[1])
    IN  IF IsErr(rsp) THEN Err(rsp.err)
        ELSE LET amount == u64_from_str(rsp.val.amount)
             IN  IF IsErr(amount)
                 THEN Panic("called Result::unwrap() on an Err value")
                 ELSE Ok(SPLToken(amount.val, rsp.val.decimals))

balance_spl_token(wallet_address, token_mint_address, ledger, faults) ==
    LET addr == get_associated_token_address(wallet_address, token_mint_address)
        rsp == rpc_get_token_account_balance(ledger, addr, faults[1])
    IN  IF IsErr(rsp)
        THEN IF IsRpcResponseError(rsp.err) THEN Ok(SPLToken(U64Zero, 0))
             ELSE Err(rsp.err)
        ELSE LET amount == u64_from_str(rsp.val.amount)
             IN  IF IsErr(amount)
                 THEN Panic("called Result::unwrap() on an Err value")
                 ELSE Ok(SPLToken(amount.val, rsp.val.decimals))

balance_wsol(wallet_address, ledger, faults) ==
    LET balance == balance_spl_token(wallet_address, WSOL_MINT_ADDRESS, ledger, faults)
    IN  IF IsOk(balance) THEN Ok(balance.val.amount) ELSE balance

\* a + b on u64: overflow panics in a build with overflow checks (debug) and
\* wraps in one without (release)
AddChecked(a, b, overflow_checks) ==
    LET s == AddU64(a, b)
    IN  IF s.carry > 0 /\ overflow_checks THEN Panic("attempt to add with overflow")
        ELSE Ok(s.val)

\* balance_sol_unified leaving the wrapped balance out of the sum
balance_sol_unified_native_only(wallet_address, ledger, faults, overflow_checks) ==
    LET sol_balance == balance_sol(wallet_address, ledger, faults)
    IN  IF ~IsOk(sol_balance) THEN sol_balance
        ELSE LET wsol_balance == balance_wsol(wallet_address, ledger, Tail(faults))
             IN  IF ~IsOk(wsol_balance) THEN wsol_balance
                 ELSE AddChecked(sol_balance.val, U64Zero, overflow_checks)

balance_sol_unified(wallet_address, ledger, faults, overflow_checks) ==
    LET sol_balance == balance_sol(wallet_address, ledger, faults)
    IN  IF ~IsOk(sol_balance) THEN sol_balance
        ELSE LET wsol_balance == balance_wsol(wallet_address, ledger, Tail(faults))
             IN  IF ~IsOk(wsol_balance) THEN wsol_balance
                 ELSE AddChecked(sol_balance.val, wsol_balance.val, overflow_checks)

(***************************************************************************)
(* Position enumeration.  An entry of the get-token-accounts-by-owner      *)
(* response is an RpcKeyedAccount: the account's address and its data in   *)
(* the encoding the node chose; a jsonParsed body names the program that   *)
(* parsed it and carries the parsed value.                                 *)
(***************************************************************************)
POSITION_SEED == "position"

KeyedAccount(pubkey, encoding, program, parsed, mint, amount, decimals, close_authority) ==
    [pubkey |-> pubkey, encoding |-> encoding, program |-> program, parsed |-> parsed,
     mint |-> mint, amount |-> amount, decimals |-> decimals,
     close_authority |-> close_authority]

\* find_program_address hashing the fixed seed only
find_program_address_of_first_seed(seeds, program) ==
    [derived_by |-> "program-address", seeds |-> <<seeds[1]>>, program |-> program]

\* Pubkey::find_program_address: the address derived from the seeds under the
\* program (a hash of both; distinct inputs give distinct addresses)
find_program_address(seeds, program) ==
    [derived_by |-> "program-address", seeds |-> seeds, program |-> program]

rpc_get_token_accounts_by_owner(ledger, owner, token_program, fault) ==
    IF fault \in TransportFaults THEN Err(RpcFailure(fault))
    ELSE Ok(ledger.token_accounts_by_owner[owner])

PositionNftTokenInfo(key, program, position, mint, amount, decimals) ==
    [key |-> key, program |-> program, position |-> position, mint |-> mint,
     amount |-> amount, decimals |-> decimals]

\* NftOfKeyedAccount reading an entry's fields whatever its encoding
NftOfKeyedAccount_any_encoding(keyed_account, token_program, raydium_amm_v3_program) ==
    IF keyed_account.program \notin {"spl-token", "spl-token-2022"}
    THEN [kind |-> "skip"]
    ELSE IF keyed_account.parsed # "account" THEN [kind |-> "skip"]
    ELSE LET token == Pubkey_from_str(keyed_account.mint)
             token_account == Pubkey_from_str(keyed_account.pubkey)
             token_amount == u64_from_str(keyed_account.amount)
         IN  IF IsErr(token) THEN Panic("Invalid mint")
             ELSE IF IsErr(token_account) THEN Panic("Invalid token account")
             ELSE IF IsErr(token_amount) THEN Panic("Invalid token amount")
             ELSE IF keyed_account.close_authority # "None"
                     /\ IsErr(Pubkey_from_str(keyed_account.close_authority))
             THEN Panic("Invalid close authority")
             ELSE IF keyed_account.decimals = 0 /\ token_amount.val = U64One
             THEN Ok(PositionNftTokenInfo(
                        token_account.val, token_program,
                        find_program_address(<<POSITION_SEED, token.val>>,
                                             raydium_amm_v3_program),
                        token.val, token_amount.val, keyed_account.decimals))
             ELSE [kind |-> "skip"]

\* the body of the loop for one entry: the entry is passed over ("skip"), makes
\* the thread panic, or yields one PositionNftTokenInfo
NftOfKeyedAccount(keyed_account, token_program, raydium_amm_v3_program) ==
    IF keyed_account.encoding # "Json" THEN [kind |-> "skip"]
    ELSE IF keyed_account.program \notin {"spl-token", "spl-token-2022"}
    THEN [kind |-> "skip"]
    ELSE IF keyed_account.parsed # "account" THEN [kind |-> "skip"]
    ELSE LET token == Pubkey_from_str(keyed_account.mint)
             token_account == Pubkey_from_str(keyed_account.pubkey)
             token_amount == u64_from_str(keyed_account.amount)
         IN  IF IsErr(token) THEN Panic("Invalid mint")
             ELSE IF IsErr(token_account) THEN Panic("Invalid token account")
             ELSE IF IsErr(token_amount) THEN Panic("Invalid token amount")
             ELSE IF keyed_account.close_authority # "None"
                     /\ IsErr(Pubkey_from_str(keyed_account.close_authority))
             THEN Panic("Invalid close authority")
             ELSE IF keyed_account.decimals = 0 /\ token_amount.val = U64One
             THEN Ok(PositionNftTokenInfo(
                        token_account.val, token_program,
                        find_program_address(<<POSITION_SEED, token.val>>,
                                             raydium_amm_v3_program),
                        token.val, token_amount.val, keyed_account.decimals))
             ELSE [kind |-> "skip"]

\* the loop over the entries, in response order
RECURSIVE CollectNfts(_, _, _, _)
CollectNfts(all_tokens, position_nft_accounts, token_program, raydium_amm_v3_program) ==
    IF all_tokens = <<>> THEN Ok(position_nft_accounts)
    ELSE LET one == NftOfKeyedAccount(Head(all_tokens), token_program,
                                      raydium_amm_v3_program)
         IN  IF IsPanic(one) THEN one
             ELSE CollectNfts(Tail(all_tokens),
                              IF IsOk(one) THEN Append(position_nft_accounts, one.val)
                              ELSE position_nft_accounts,
                              token_program, raydium_amm_v3_program)

get_nft_account_and_position_by_owner(owner, token_program, raydium_amm_v3_program, ledger, faults) ==
    LET all_tokens == rpc_get_token_accounts_by_owner(ledger, owner, token_program,
                                                      faults[1])
    IN  IF IsErr(all_tokens) THEN Panic("called Result::unwrap() on an Err value")
        ELSE CollectNfts(all_tokens.val, <<>>, token_program, raydium_amm_v3_program)

(***************************************************************************)
(* Position valuation.                                                     *)
(***************************************************************************)
\* get_multiple_accounts: one optional account per requested address, in the
\* order of the request
rpc_get_multiple_accounts(ledger, pubkeys, fault) ==
    IF fault \in TransportFaults THEN Err(RpcFailure(fault))
    ELSE Ok([i \in 1..Len(pubkeys) |->
                IF pubkeys[i] \in DOMAIN ledger.accounts THEN ledger.accounts[pubkeys[i]]
                ELSE NoAccount])

\* anchor's try_deserialize: the data must open with the type's discriminator
deserialize_anchor_account(account) ==
    IF account.discriminator = "PersonalPositionState" THEN Ok(account.state)
    ELSE Err("AccountDiscriminatorMismatch")

MAX_TICK == 443636

MIN_TICK == -443636

\* tick_math::get_sqrt_price_at_tick: an error outside [MIN_TICK, MAX_TICK];
\* inside, a price that grows strictly with the tick, written here as the tick
\* it is the price of
get_sqrt_price_at_tick(tick) ==
    IF tick < MIN_TICK \/ tick > MAX_TICK THEN Err("TickUpperOverflow")
    ELSE Ok([sqrt_price_x64_at_tick |-> tick])

\* get_delta_amount_0_unsigned / get_delta_amount_1_unsigned: Result<u64>, an
\* error when the amount does not fit u64, zero over an empty price range.  A
\* record's liquidity is written as the two results the formulas give for it
\* over a non-empty range.
get_delta_amount_0_unsigned(sqrt_ratio_a_x64, sqrt_ratio_b_x64, liquidity, round_up) ==
    IF sqrt_ratio_a_x64 = sqrt_ratio_b_x64 THEN Ok(U64Zero) ELSE liquidity.amount_0

get_delta_amount_1_unsigned(sqrt_ratio_a_x64, sqrt_ratio_b_x64, liquidity, round_up) ==
    IF sqrt_ratio_a_x64 = sqrt_ratio_b_x64 THEN Ok(U64Zero) ELSE liquidity.amount_1

\* the filter_map over the fetched accounts: the position records of pool_id
RECURSIVE PositionsOfPool(_, _)
PositionsOfPool(accounts, pool_id) ==
    IF accounts = <<>> THEN <<>>
    ELSE LET p == Head(accounts)
             rest == PositionsOfPool(Tail(accounts), pool_id)
         IN  IF p = NoAccount THEN rest
             ELSE LET position == deserialize_anchor_account(p)
                  IN  IF IsErr(position) THEN rest
                      ELSE IF position.val.pool_id = pool_id
                      THEN <<position.val>> \o rest
                      ELSE rest

\* the two amounts of one position, or the first error of the four library calls
PositionAmounts(position) ==
    LET tick_lower_price_x64 == get_sqrt_price_at_tick(position.tick_lower_index)
        tick_upper_price_x64 == get_sqrt_price_at_tick(position.tick_upper_index)
    IN  IF IsErr(tick_lower_price_x64) THEN tick_lower_price_x64
        ELSE IF IsErr(tick_upper_price_x64) THEN tick_upper_price_x64
        ELSE LET delta_amount0 == get_delta_amount_0_unsigned(
                                      tick_lower_price_x64.val, tick_upper_price_x64.val,
                                      position.liquidity, TRUE)
                 delta_amount1 == get_delta_amount_1_unsigned(
                                      tick_upper_price_x64.val, tick_lower_price_x64.val,
                                      position.liquidity, TRUE)
             IN  IF IsErr(delta_amount0) THEN delta_amount0
                 ELSE IF IsErr(delta_amount1) THEN delta_amount1
                 ELSE Ok(<<delta_amount0.val, delta_amount1.val>>)

\* the loop that adds each position's amounts to the running totals
RECURSIVE AddPositions(_, _, _, _)
AddPositions(positions, amount_0, amount_1, overflow_checks) ==
    IF positions = <<>> THEN Ok(<<amount_0, amount_1>>)
    ELSE LET delta == PositionAmounts(Head(positions))
         IN  IF IsErr(delta) THEN delta
             ELSE LET sum_0 == AddChecked(amount_0, delta.val[1], overflow_checks)
                      sum_1 == AddChecked(amount_1, delta.val[2], overflow_checks)
                  IN  IF IsPanic(sum_0) THEN sum_0
                      ELSE IF IsPanic(sum_1) THEN sum_1
                      ELSE AddPositions(Tail(positions), sum_0.val, sum_1.val,
                                        overflow_checks)

RECURSIVE PositionAddresses(_)
PositionAddresses(nfts) ==
    IF nfts = <<>> THEN <<>>
    ELSE <<Head(nfts).position>> \o PositionAddresses(Tail(nfts))

raydium_pool_position(wallet_address, pool_id, ledger, faults, overflow_checks) ==
    LET nfts == get_nft_account_and_position_by_owner(
                    wallet_address, TOKEN_2022_PROGRAM, RAYDIUM_V3_PROGRAM, ledger, faults)
    IN  IF IsPanic(nfts) THEN nfts
        ELSE LET fetched == rpc_get_multiple_accounts(
                                ledger, PositionAddresses(nfts.val), faults[2])
             IN  IF IsErr(fetched) THEN fetched
                 ELSE AddPositions(PositionsOfPool(fetched.val, pool_id),
                                   U64Zero, U64Zero, overflow_checks)

position_sol_usdc_1bp(wallet_address, ledger, faults, overflow_checks) ==
    LET pool_id == Pubkey_from_str(SOL_USDC_1BP_POOL)
    IN  IF IsErr(pool_id) THEN pool_id
        ELSE raydium_pool_position(wallet_address, pool_id.val, ledger, faults,
                                   overflow_checks)

(***************************************************************************)
(* The inputs the operations are applied to.                               *)
(***************************************************************************)
Amounts ==
    {U64Zero,
     U64(<<"1">>),
     U64(<<"2", "0", "0", "0", "0", "0", "0", "0", "0", "0">>),
     U64(<<"9", "2", "2", "3", "3", "7", "2", "0", "3", "6",
           "8", "5", "4", "7", "7", "5", "8", "0", "8">>),
     U64(<<"1", "8", "4", "4", "6", "7", "4", "4", "0", "7",
           "3", "7", "0", "9", "5", "5", "1", "6", "1", "5">>)}

Mints == {WSOL_MINT_ADDRESS, USDC_MINT}

TokenAccountStates ==
    {NoAccount} \cup {[exists |-> TRUE, amount |-> a, decimals |-> 9] : a \in Amounts}

AssociatedAccounts == {get_associated_token_address(WALLET, m) : m \in Mints}

BalanceLedgers ==
    [lamports : [{WALLET} -> Amounts],
     token_accounts : [AssociatedAccounts -> TokenAccountStates]]

BalanceFaults == TransportFaults \cup {"none"}

TokenBalanceFaults == BalanceFaults \cup {"MalformedAmount"}


\* entries of a get-token-accounts-by-owner response
OwnershipToken(token_account, mint) ==
    KeyedAccount(token_account, "Json", "spl-token-2022", "account", mint, <<"1">>, 0,
                 "None")

FungibleToken ==
    KeyedAccount(TOKEN_ACCOUNT_3, "Json", "spl-token-2022", "account", WSOL_MINT_ADDRESS,
                 <<"2", "0", "0", "0", "0", "0", "0", "0", "0", "0">>, 9, "None")

BinaryEncoded ==
    KeyedAccount(TOKEN_ACCOUNT_3, "Binary", "spl-token-2022", "account", NFT_MINT_2,
                 <<"1">>, 0, "None")

InvalidMint ==
    KeyedAccount(TOKEN_ACCOUNT_3, "Json", "spl-token-2022", "account", "not-a-mint",
                 <<"1">>, 0, "None")

\* the entries the valuation is applied to
ValuationEntries ==
    {OwnershipToken(TOKEN_ACCOUNT_1, NFT_MINT_1),
     OwnershipToken(TOKEN_ACCOUNT_2, NFT_MINT_2),
     FungibleToken, BinaryEncoded, InvalidMint}

\* the entries the enumeration is applied to
KeyedAccounts ==
    ValuationEntries \cup
    {OwnershipToken(TOKEN_ACCOUNT_3, NFT_MINT_1),
     KeyedAccount(TOKEN_ACCOUNT_3, "Json", "stake", "account", NFT_MINT_2, <<"1">>, 0,
                  "None"),
     KeyedAccount(TOKEN_ACCOUNT_3, "Json", "spl-token", "mint", NFT_MINT_2, <<"1">>, 0,
                  "None"),
     KeyedAccount("not-an-address", "Json", "spl-token", "account", NFT_MINT_2, <<"1">>,
                  0, "None"),
     KeyedAccount(TOKEN_ACCOUNT_3, "Json", "spl-token", "account", NFT_MINT_2,
                  <<"1", ".", "0">>, 0, "None"),
     KeyedAccount(TOKEN_ACCOUNT_3, "Json", "spl-token", "account", NFT_MINT_2, <<"1">>,
                  0, "not-an-address"),
     KeyedAccount(TOKEN_ACCOUNT_3, "Json", "spl-token", "account", NFT_MINT_2, <<"2">>,
                  0, WALLET),
     KeyedAccount(TOKEN_ACCOUNT_3, "Json", "spl-token", "account", NFT_MINT_2, <<"1">>,
                  9, "None")}

MaxTokenAccounts == 2

\* the responses of at most n entries of S, no account listed twice
Responses(S, n) ==
    {r \in UNION {[1..k -> S] : k \in 0..n} :
        \A i, j \in 1..Len(r) : i # j => r[i].pubkey # r[j].pubkey}

\* accounts at the derived position addresses
PositionState(pool_id, tick_lower_index, tick_upper_index, liquidity) ==
    [exists |-> TRUE, discriminator |-> "PersonalPositionState",
     state |-> [pool_id |-> pool_id, tick_lower_index |-> tick_lower_index,
                tick_upper_index |-> tick_upper_index, liquidity |-> liquidity]]

Liquidity(amount_0, amount_1) == [amount_0 |-> amount_0, amount_1 |-> amount_1]

TwoTo63 ==
    U64(<<"9", "2", "2", "3", "3", "7", "2", "0", "3", "6",
          "8", "5", "4", "7", "7", "5", "8", "0", "8">>)

SmallLiquidity ==
    Liquidity(Ok(U64(<<"1", "0", "0", "0">>)), Ok(U64(<<"2", "5", "0", "0", "0", "0">>)))

LargeLiquidity == Liquidity(Ok(TwoTo63), Ok(TwoTo63))

AccountStates ==
    {NoAccount,
     [exists |-> TRUE, discriminator |-> "PoolState", state |-> "other"],
     PositionState(SOL_USDC_1BP_POOL, -10, 10, SmallLiquidity),
     PositionState(SOL_USDC_1BP_POOL, -10, 10, LargeLiquidity),
     PositionState(SOL_USDC_1BP_POOL, -10, 10,
                   Liquidity(Err("MaxTokenOverflow"), Ok(U64One))),
     PositionState(SOL_USDC_1BP_POOL, -10, 10,
                   Liquidity(Ok(U64One), Err("MaxTokenOverflow"))),
     PositionState(SOL_USDC_1BP_POOL, MIN_TICK - 1, 10, SmallLiquidity),
     PositionState(SOL_USDC_1BP_POOL, MIN_TICK, MAX_TICK + 1, SmallLiquidity),
     PositionState(OTHER_POOL, -10, 10, LargeLiquidity)}

DerivedAddresses ==
    {find_program_address(<<POSITION_SEED, m>>, RAYDIUM_V3_PROGRAM) :
        m \in {NFT_MINT_1, NFT_MINT_2}}

EnumerationLedgers ==
    [token_accounts_by_owner : [{WALLET} -> Responses(KeyedAccounts, MaxTokenAccounts)],
     accounts : [DerivedAddresses -> {NoAccount}]]

PositionLedgers ==
    [token_accounts_by_owner : [{WALLET} -> Responses(ValuationEntries, MaxTokenAccounts)],
     accounts : [DerivedAddresses -> AccountStates]]

\* the faults of the two remote calls of a valuation: the second call is made
\* only when the first was answered
PositionFaults ==
    {<<f, "none">> : f \in BalanceFaults} \cup {<<"none", f>> : f \in BalanceFaults}

(***************************************************************************)
(* State.  call is the BalanceFetcher call made under SpecApi.  The others *)
(* are the run of the command-line program: its position, argv, the ledger *)
(* the remote node serves, whether the build checks integer overflow, the  *)
(* local variables of main, the remote requests issued so far with their   *)
(* responses, how the process ended, and what it wrote.                    *)
(***************************************************************************)
VARIABLES call, pc, args, ledger, overflow_checks, locals, rpc_log, outcome, stdout,
          stderr

program == <<pc, args, ledger, overflow_checks, locals, rpc_log, outcome, stdout, stderr>>

vars == <<call, program>>

NoLocals == [addr |-> "none"]

IdleProgram ==
    /\ pc = "idle"
    /\ args = <<>>
    /\ ledger = [lamports |-> <<>>]
    /\ overflow_checks = FALSE
    /\ locals = NoLocals
    /\ rpc_log = <<>>
    /\ outcome = [kind |-> "running"]
    /\ stdout = <<>>
    /\ stderr = <<>>

\* the record of one call: the operation, its arguments, the ledger and faults it
\* met, the build it ran in, and what it returned
Called(op, wallet, key, on_ledger, faults, checks, result) ==
    [op |-> op, wallet |-> wallet, mint |-> key, pool_id |-> key, ledger |-> on_ledger,
     faults |-> faults, overflow_checks |-> checks, result |-> result]

InitApi == call = [op |-> "none"] /\ IdleProgram

Call_balance_sol ==
    /\ call.op = "none"
    /\ UNCHANGED program
    /\ \E on_ledger \in BalanceLedgers, f \in BalanceFaults :
        call' = Called("balance_sol", WALLET, "none", on_ledger, <<f>>, FALSE,
                       balance_sol(WALLET, on_ledger, <<f>>))

Call_balance_spl_token ==
    /\ call.op = "none"
    /\ UNCHANGED program
    /\ \E on_ledger \in BalanceLedgers, mint \in Mints, f \in TokenBalanceFaults :
        call' = Called("balance_spl_token", WALLET, mint, on_ledger, <<f>>, FALSE,
                       balance_spl_token(WALLET, mint, on_ledger, <<f>>))

Call_balance_wsol ==
    /\ call.op = "none"
    /\ UNCHANGED program
    /\ \E on_ledger \in BalanceLedgers, f \in TokenBalanceFaults :
        call' = Called("balance_wsol", WALLET, WSOL_MINT_ADDRESS, on_ledger, <<f>>, FALSE,
                       balance_wsol(WALLET, on_ledger, <<f>>))

Call_balance_sol_unified ==
    /\ call.op = "none"
    /\ UNCHANGED program
    /\ \E on_ledger \in BalanceLedgers, f1 \in BalanceFaults, f2 \in TokenBalanceFaults,
       checks \in BOOLEAN :
        call' = Called("balance_sol_unified", WALLET, WSOL_MINT_ADDRESS, on_ledger,
                       <<f1, f2>>, checks,
                       balance_sol_unified(WALLET, on_ledger, <<f1, f2>>, checks))

Call_get_nft_account_and_position_by_owner ==
    /\ call.op = "none"
    /\ UNCHANGED program
    /\ \E on_ledger \in EnumerationLedgers, f \in BalanceFaults :
        call' = Called("get_nft_account_and_position_by_owner", WALLET, "none", on_ledger,
                       <<f>>, FALSE,
                       get_nft_account_and_position_by_owner(
                           WALLET, TOKEN_2022_PROGRAM, RAYDIUM_V3_PROGRAM, on_ledger, <<f>>))

Call_raydium_pool_position ==
    /\ call.op = "none"
    /\ UNCHANGED program
    /\ \E on_ledger \in PositionLedgers, pool_id \in {SOL_USDC_1BP_POOL, OTHER_POOL},
          faults \in PositionFaults, checks \in BOOLEAN :
        call' = Called("raydium_pool_position", WALLET, pool_id, on_ledger, faults,
                       checks,
                       raydium_pool_position(WALLET, pool_id, on_ledger, faults,
                                             checks))

Call_position_sol_usdc_1bp ==
    /\ call.op = "none"
    /\ UNCHANGED program
    /\ \E on_ledger \in PositionLedgers, faults \in PositionFaults,
          checks \in BOOLEAN :
        /\ Len(on_ledger.token_accounts_by_owner[WALLET]) <= 1
        /\ call' = Called("position_sol_usdc_1bp", WALLET, SOL_USDC_1BP_POOL, on_ledger,
                          faults, checks,
                          position_sol_usdc_1bp(WALLET, on_ledger, faults, checks))

NextApi ==
    \/ Call_balance_sol
    \/ Call_balance_spl_token
    \/ Call_balance_wsol
    \/ Call_balance_sol_unified
    \/ Call_get_nft_account_and_position_by_owner
    \/ Call_raydium_pool_position
    \/ Call_position_sol_usdc_1bp

SpecApi == InitApi /\ [][NextApi]_vars

(***************************************************************************)
(* The command-line program, main, one action per statement, and the       *)
(* ledger changing under it.                                               *)
(***************************************************************************)
ArgLists ==
    {<<"raydium-balance-fetcher">>,
     <<"raydium-balance-fetcher", "not-a-real-address">>,
     <<"raydium-balance-fetcher", WALLET>>}

MainAmounts == {U64(<<"2", "0", "0", "0", "0", "0", "0", "0", "0", "0">>), TwoTo63}

MainTokenAccountStates ==
    {NoAccount} \cup {[exists |-> TRUE, amount |-> a, decimals |-> 9] : a \in MainAmounts}

MainLedgers ==
    {l \in [lamports : [{WALLET} -> MainAmounts],
            token_accounts : [{get_associated_token_address(WALLET, WSOL_MINT_ADDRESS)}
                                -> MainTokenAccountStates],
            token_accounts_by_owner :
                [{WALLET} -> {<<>>, <<OwnershipToken(TOKEN_ACCOUNT_1, NFT_MINT_1)>>,
                              <<InvalidMint>>}],
            accounts :
                [DerivedAddresses ->
                    {NoAccount,
                     PositionState(SOL_USDC_1BP_POOL, -10, 10, SmallLiquidity),
                     PositionState(SOL_USDC_1BP_POOL, MIN_TICK, MAX_TICK + 1,
                                   SmallLiquidity)}]] :
        l.accounts[find_program_address(<<POSITION_SEED, NFT_MINT_2>>,
                                        RAYDIUM_V3_PROGRAM)] = NoAccount}

\* the faults of an operation's two remote calls: the second call is made only
\* when the first was answered
FaultPairs(first, second) ==
    {<<f, "none">> : f \in first} \cup {<<"none", f>> : f \in second}

Request(name, response) == [request |-> name, response |-> response]

Init ==
    /\ call = [op |-> "none"]
    /\ pc = "check_args"
    /\ args \in ArgLists
    /\ ledger \in MainLedgers
    /\ overflow_checks \in BOOLEAN
    /\ locals = NoLocals
    /\ rpc_log = <<>>
    /\ outcome = [kind |-> "running"]
    /\ stdout = <<>>
    /\ stderr = <<>>

\* std::process::exit(1)
Exit1(message) ==
    /\ pc' = "exited"
    /\ outcome' = [kind |-> "exit", code |-> 1]
    /\ stderr' = Append(stderr, message)

\* a statement `let x = operation?;` of main: Ok binds the local and goes on,
\* an error is returned from main, a panic unwinds it
Bind(result, local, next) ==
    IF IsOk(result)
    THEN /\ locals' = [l \in DOMAIN locals \cup {local} |->
                          IF l = local THEN result.val ELSE locals[l]]
         /\ pc' = next
         /\ UNCHANGED <<outcome, stderr>>
    ELSE /\ pc' = "exited"
         /\ outcome' = result
         /\ stderr' = Append(stderr, IF IsErr(result) THEN "Error" ELSE "panicked")
         /\ UNCHANGED locals

Main_CheckArgs ==
    /\ pc = "check_args"
    /\ IF Len(args) < 2
       THEN Exit1("Please Usage: <address>")
       ELSE pc' = "new_fetcher" /\ UNCHANGED <<outcome, stderr>>
    /\ UNCHANGED <<call, args, ledger, overflow_checks, locals, rpc_log, stdout>>

\* BalanceFetcher::new builds the client; it sends nothing
Main_NewFetcher ==
    /\ pc = "new_fetcher"
    /\ pc' = "parse_address"
    /\ UNCHANGED <<call, args, ledger, overflow_checks, locals, rpc_log, outcome, stdout,
                   stderr>>

\* Main_ParseAddress going on with the argument as it is when it does not parse
Main_ParseAddress_no_exit ==
    /\ pc = "parse_address"
    /\ locals' = [locals EXCEPT !.addr = IF IsOk(Pubkey_from_str(args[2])) THEN args[2]
                                         ELSE WALLET]
    /\ pc' = "balance_sol"
    /\ UNCHANGED <<outcome, stderr>>
    /\ UNCHANGED <<call, args, ledger, overflow_checks, rpc_log, stdout>>

Main_ParseAddress ==
    /\ pc = "parse_address"
    /\ LET addr == Pubkey_from_str(args[2])
       IN  IF IsErr(addr)
           THEN Exit1("Invalid address") /\ UNCHANGED locals
           ELSE /\ locals' = [locals EXCEPT !.addr = addr.val]
                /\ pc' = "balance_sol"
                /\ UNCHANGED <<outcome, stderr>>
    /\ UNCHANGED <<call, args, ledger, overflow_checks, rpc_log, stdout>>

Main_balance_sol ==
    /\ pc = "balance_sol"
    /\ \E f \in BalanceFaults :
        /\ rpc_log' = Append(rpc_log,
                             Request("getBalance", rpc_get_balance(ledger, locals.addr, f)))
        /\ Bind(balance_sol(locals.addr, ledger, <<f>>), "balance_sol", "balance_wsol")
    /\ UNCHANGED <<call, args, ledger, overflow_checks, stdout>>

WsolAccount(addr) == get_associated_token_address(addr, WSOL_MINT_ADDRESS)

Main_balance_wsol ==
    /\ pc = "balance_wsol"
    /\ \E f \in TokenBalanceFaults :
        /\ rpc_log' = Append(rpc_log,
                             Request("getTokenAccountBalance",
                                     rpc_get_token_account_balance(
                                         ledger, WsolAccount(locals.addr), f)))
        /\ Bind(balance_wsol(locals.addr, ledger, <<f>>), "balance_wsol",
                "balance_sol_unified")
    /\ UNCHANGED <<call, args, ledger, overflow_checks, stdout>>

Main_balance_sol_unified ==
    /\ pc = "balance_sol_unified"
    /\ \E faults \in FaultPairs(BalanceFaults, TokenBalanceFaults) :
        LET first == rpc_get_balance(ledger, locals.addr, faults[1])
            second == rpc_get_token_account_balance(ledger, WsolAccount(locals.addr),
                                                    faults[2])
        IN  /\ rpc_log' = rpc_log \o <<Request("getBalance", first)>>
                            \o (IF IsOk(balance_sol(locals.addr, ledger, faults))
                                THEN <<Request("getTokenAccountBalance", second)>>
                                ELSE <<>>)
            /\ Bind(balance_sol_unified(locals.addr, ledger, faults, overflow_checks),
                    "balance_sol_unified", "position_sol_usdc_1bp")
    /\ UNCHANGED <<call, args, ledger, overflow_checks, stdout>>

Main_position_sol_usdc_1bp ==
    /\ pc = "position_sol_usdc_1bp"
    /\ \E faults \in FaultPairs(BalanceFaults, BalanceFaults) :
        LET first == rpc_get_token_accounts_by_owner(ledger, locals.addr,
                                                     TOKEN_2022_PROGRAM, faults[1])
            nfts == get_nft_account_and_position_by_owner(
                        locals.addr, TOKEN_2022_PROGRAM, RAYDIUM_V3_PROGRAM, ledger, faults)
            result == position_sol_usdc_1bp(locals.addr, ledger, faults, overflow_checks)
        IN  /\ rpc_log' = rpc_log \o <<Request("getTokenAccountsByOwner", first)>>
                            \o (IF IsOk(nfts)
                                THEN <<Request("getMultipleAccounts",
                                               rpc_get_multiple_accounts(
                                                   ledger, PositionAddresses(nfts.val),
                                                   faults[2]))>>
                                ELSE <<>>)
            /\ Bind(IF IsOk(result) THEN Ok(result.val[1]) ELSE result,
                    "balance_sol_position", "print")
    /\ UNCHANGED <<call, args, ledger, overflow_checks, stdout>>

\* the summary: the address and the four figures, each a raw amount that the
\* program writes divided by 10^9
Main_PrintSummary ==
    /\ pc = "print"
    /\ stdout' = Append(stdout,
                        [address |-> locals.addr,
                         sol |-> locals.balance_sol,
                         wsol |-> locals.balance_wsol,
                         unified |-> locals.balance_sol_unified,
                         position |-> locals.balance_sol_position])
    /\ pc' = "exited"
    /\ outcome' = Ok("unit")
    /\ UNCHANGED <<call, args, ledger, overflow_checks, locals, rpc_log, stderr>>

\* other parties move the wallet's native or wrapped balance while the program
\* runs
LedgerChange ==
    /\ pc # "exited"
    /\ \E l \in MainLedgers :
        /\ l.token_accounts_by_owner = ledger.token_accounts_by_owner
        /\ l.accounts = ledger.accounts
        /\ l # ledger
        /\ ledger' = l
    /\ UNCHANGED <<call, pc, args, overflow_checks, locals, rpc_log, outcome, stdout,
                   stderr>>

Next ==
    \/ Main_CheckArgs
    \/ Main_NewFetcher
    \/ Main_ParseAddress
    \/ Main_balance_sol
    \/ Main_balance_wsol
    \/ Main_balance_sol_unified
    \/ Main_position_sol_usdc_1bp
    \/ Main_PrintSummary
    \/ LedgerChange

Spec == Init /\ [][Next]_vars

\* the process's exit code
ExitCode ==
    CASE outcome.kind = "Ok" -> 0
      [] outcome.kind \in {"Err", "exit"} -> 1
      [] outcome.kind = "Panic" -> 101
      [] OTHER -> -1

(***************************************************************************)
(* Claims about the balance lookups, checked under SpecApi.                *)
(***************************************************************************)
BalanceOps == {"balance_sol", "balance_spl_token", "balance_wsol", "balance_sol_unified"}

\* the fault of the call's get-token-account-balance request
TokenFault == IF call.op = "balance_sol_unified" THEN call.faults[2] ELSE call.faults[1]

\* the call's associated token account does not exist on the ledger
TokenAccountAbsent ==
    call.ledger.token_accounts[get_associated_token_address(call.wallet, call.mint)]
        = NoAccount

\* C1: when the wallet's associated token account for the mint does not exist on
\* the ledger (and the node answers the request), balance_spl_token returns
\* Ok with amount 0 and decimals 0, balance_wsol returns Ok(0), and
\* balance_sol_unified, its native lookup having succeeded, returns Ok with the
\* native balance.
C1_AbsentAccountIsZero ==
    (call.op \in {"balance_spl_token", "balance_wsol", "balance_sol_unified"}
        /\ TokenAccountAbsent /\ TokenFault \notin TransportFaults)
    => CASE call.op = "balance_spl_token" -> call.result = Ok(SPLToken(U64Zero, 0))
         [] call.op = "balance_wsol" -> call.result = Ok(U64Zero)
         [] call.op = "balance_sol_unified" ->
                call.faults[1] = "none"
                    => call.result = Ok(call.ledger.lamports[call.wallet])

C1_Witness ==
    /\ call.op = "balance_spl_token"
    /\ call.mint = USDC_MINT
    /\ TokenAccountAbsent
    /\ call.faults[1] = "none"
    /\ call.result = Ok(SPLToken(U64Zero, 0))

\* C2: in the balance lookups "account not found" is the only remote error that
\* is suppressed: when a remote call ends in any other error, or serves a
\* balance string that is not an integer, the operation returns an error (for a
\* remote error, that error) and no balance.
C2_OnlyNotFoundSuppressed ==
    (call.op \in BalanceOps)
    => /\ call.faults[1] \in TransportFaults
            => call.result = Err(RpcFailure(call.faults[1]))
       /\ (call.op = "balance_sol_unified" /\ call.faults[1] = "none"
             /\ call.faults[2] \in TransportFaults)
            => call.result = Err(RpcFailure(call.faults[2]))
       /\ (call.op # "balance_sol" /\ TokenFault = "MalformedAmount"
             /\ ~TokenAccountAbsent
             /\ (call.op = "balance_sol_unified" => call.faults[1] = "none"))
            => IsErr(call.result)

\* C3: with both lookups succeeding on the same ledger, balance_sol_unified
\* returns exactly the integer sum of balance_sol and the wrapped-token amount
\* of balance_spl_token, which is never smaller than balance_sol.
C3_UnifiedIsExactSum ==
    LET sol == balance_sol(call.wallet, call.ledger, call.faults)
        tok == balance_spl_token(call.wallet, WSOL_MINT_ADDRESS, call.ledger,
                                 Tail(call.faults))
    IN  (call.op = "balance_sol_unified" /\ IsOk(sol) /\ IsOk(tok))
        => /\ IsOk(call.result)
           /\ Exactly(call.result.val) = IntegerSum(<<sol.val, tok.val.amount>>)
           /\ LeqU64(sol.val, call.result.val)

(***************************************************************************)
(* Claims about position enumeration and valuation, checked under SpecApi. *)
(***************************************************************************)
\* the entries the node returned to the call
Entries == call.ledger.token_accounts_by_owner[call.wallet]

\* the entry is read as a token account: jsonParsed, by a token program
ReadAsTokenAccount(e) ==
    /\ e.encoding = "Json"
    /\ e.program \in {"spl-token", "spl-token-2022"}
    /\ e.parsed = "account"

\* one of the entry's strings does not parse
HasUnparsableString(e) ==
    \/ e.mint \notin Base58Keys
    \/ e.pubkey \notin Base58Keys
    \/ IsErr(u64_from_str(e.amount))
    \/ (e.close_authority # "None" /\ e.close_authority \notin Base58Keys)

\* a well-formed entry with the ownership-token signature
IsOwnershipToken(e) ==
    /\ ReadAsTokenAccount(e)
    /\ ~HasUnparsableString(e)
    /\ e.decimals = 0
    /\ u64_from_str(e.amount) = Ok(U64One)

\* the position derived from a well-formed ownership-token entry
DerivedPosition(e) ==
    [key |-> e.pubkey, program |-> TOKEN_2022_PROGRAM,
     position |-> [derived_by |-> "program-address", seeds |-> <<"position", e.mint>>,
                   program |-> RAYDIUM_V3_PROGRAM],
     mint |-> e.mint, amount |-> U64One, decimals |-> 0]

DerivedPositions(entries) ==
    LET owned == SelectSeq(entries, IsOwnershipToken)
    IN  [i \in 1..Len(owned) |-> DerivedPosition(owned[i])]

Enumerated == call.op = "get_nft_account_and_position_by_owner" /\ call.faults[1] = "none"

C6_NoDuplicateAddresses ==
    (Enumerated /\ IsOk(call.result))
    => \A i, j \in 1..Len(call.result.val) :
          i # j => call.result.val[i].position # call.result.val[j].position

\* C6 as amended: the list holds one entry per well-formed ownership-token
\* entry of the response, and two entries of the list have the same derived
\* position address exactly when they have the same mint.
C6_SameAddressIffSameMint ==
    (Enumerated /\ IsOk(call.result))
    => /\ Len(call.result.val) = Len(SelectSeq(Entries, IsOwnershipToken))
       /\ \A i, j \in 1..Len(call.result.val) :
             (call.result.val[i].position = call.result.val[j].position)
                <=> (call.result.val[i].mint = call.result.val[j].mint)

C6_Witness ==
    /\ Enumerated
    /\ IsOk(call.result)
    /\ Len(call.result.val) = 2
    /\ call.result.val[1].key # call.result.val[2].key
    /\ call.result.val[1].mint = call.result.val[2].mint
    /\ call.result.val[1].position = call.result.val[2].position

\* the accounts the valuation was served for the addresses it derived
FetchedAccounts ==
    LET owned == SelectSeq(Entries, IsOwnershipToken)
    IN  [i \in 1..Len(owned) |-> call.ledger.accounts[DerivedPosition(owned[i]).position]]

\* the account is present, decodes as a position record and is of the call's pool
IsPositionOfPool(a) ==
    /\ a # NoAccount
    /\ a.discriminator = "PersonalPositionState"
    /\ a.state.pool_id = call.pool_id

Counted == SelectSeq(FetchedAccounts, IsPositionOfPool)

\* the valuation was served both responses and enumeration returned
Valued ==
    /\ call.op = "raydium_pool_position"
    /\ call.faults = <<"none", "none">>
    /\ \A i \in 1..Len(Entries) :
          ~(ReadAsTokenAccount(Entries[i]) /\ HasUnparsableString(Entries[i]))

\* the library's results for one counted account
AmountsOf(a) == PositionAmounts(a.state)

\* the integer total of token k over the counted accounts (all with amounts)
TotalOf(k) == IntegerSum([i \in 1..Len(Counted) |-> AmountsOf(Counted[i]).val[k]])

\* C8: raydium_pool_position returns the sums of the per-position amounts over
\* exactly the fetched accounts that are present, decode as a position record
\* and belong to pool_id; the others contribute nothing and cause no error, so
\* the result is (0, 0) without error when nothing is counted.
C8_SumOverPoolPositions ==
    Valued
    => /\ Counted = <<>> => call.result = Ok(<<U64Zero, U64Zero>>)
       /\ (\A i \in 1..Len(Counted) : IsOk(AmountsOf(Counted[i])))
            => /\ IsOk(call.result)
               /\ Exactly(call.result.val[1]) = TotalOf(1)
               /\ Exactly(call.result.val[2]) = TotalOf(2)

\* a counted position has a tick outside the range, or one of its amounts does
\* not fit u64
HasDomainError == \E i \in 1..Len(Counted) : IsErr(AmountsOf(Counted[i]))

\* C9: a tick outside the representable range or an arithmetic overflow in the
\* amounts or their running totals makes raydium_pool_position return an error;
\* it never returns a pair that differs from the integer totals.
C9_ArithmeticFailureIsAnError ==
    Valued
    => IF HasDomainError THEN IsErr(call.result)
       ELSE IF TotalOf(1).carries > 0 \/ TotalOf(2).carries > 0
       THEN IsErr(call.result)
       ELSE call.result = Ok(<<TotalOf(1).val, TotalOf(2).val>>)

(***************************************************************************)
(* Claims about the command-line program, checked under Spec.              *)
(***************************************************************************)
RequestNames == [i \in 1..Len(rpc_log) |-> rpc_log[i].request]

\* the requests of a run that reaches the summary, in the order main makes them
MainRequestOrder ==
    <<"getBalance", "getTokenAccountBalance", "getBalance", "getTokenAccountBalance",
      "getTokenAccountsByOwner", "getMultipleAccounts">>

IsPrefix(s, t) == Len(s) <= Len(t) /\ \A i \in 1..Len(s) : s[i] = t[i]

\* C5: a transport or protocol error of a remote call of the position valuation
\* (get-token-accounts-by-owner or get-multiple-accounts) is returned as that
\* error value by main, which exits non-zero without printing the summary.
C5_ValuationErrorIsReturned ==
    \A i \in 1..Len(rpc_log) :
        (rpc_log[i].request \in {"getTokenAccountsByOwner", "getMultipleAccounts"}
            /\ IsErr(rpc_log[i].response))
        => /\ outcome = Err(rpc_log[i].response.err)
           /\ ExitCode # 0
           /\ stdout = <<>>

\* C7: run with no address argument, or with one that does not parse, the
\* process exits with code 1 having issued no remote request; requests are
\* issued only after the address has parsed.
C7_NoRequestBeforeAddressParses ==
    /\ (Len(args) < 2 \/ IsErr(Pubkey_from_str(args[2])))
        => /\ rpc_log = <<>>
           /\ pc = "exited" => (ExitCode = 1 /\ stdout = <<>>)
    /\ rpc_log # <<>>
        => /\ Len(args) >= 2
           /\ Pubkey_from_str(args[2]) = Ok(locals.addr)

C7_Witness ==
    /\ args = <<"raydium-balance-fetcher", "not-a-real-address">>
    /\ pc = "exited"
    /\ ExitCode = 1
    /\ rpc_log = <<>>

\* the wrapped balance a get-token-account-balance response stands for
WrappedAmount(response) ==
    IF IsErr(response) THEN U64Zero ELSE u64_from_str(response.val.amount).val

\* every request so far was answered from the ledger
AnsweredFromLedger ==
    \A i \in 1..Len(rpc_log) :
        IsErr(rpc_log[i].response) => rpc_log[i].response.err = AccountNotFound

====
